---- MODULE Spec2Model ----
(***************************************************************************)
(* SingleStore DDL statement builders (ibis_singlestore/ddl.py).           *)
(*                                                                         *)
(* A caller constructs a statement descriptor and asks it to compile       *)
(* itself to one SQL string.  stmt is the descriptor the caller holds,     *)
(* result is the outcome of the last compile() on it: a returned string    *)
(* or a raised exception.  SQL text is kept as TLA+ strings, so that       *)
(* separators and quoting are compared character for character.            *)
(***************************************************************************)
EXTENDS Integers, Sequences, FiniteSets, TLC

VARIABLES stmt, result, objs, origs, gens, firsts, lasts

vars == <<stmt, result, objs, origs, gens, firsts, lasts>>

(***************************************************************************)
(* Python values.  Optional[T] is None or a value: None is <<>> and a      *)
(* value v is <<v>>, so that None differs from every string, '' included.  *)
(***************************************************************************)
None == <<>>

Some(x) == <<x>>

Val(o) == o[1]

\* bool(o) for an Optional[str]: None and '' are falsy.
Truthy(o) == o # None /\ Val(o) # ""

RECURSIVE Join(_, _)
\* sep.join(parts)
Join(parts, sep) ==
    IF parts = <<>> THEN ""
    ELSE IF Len(parts) = 1 THEN parts[1]
    ELSE parts[1] \o sep \o Join(Tail(parts), sep)

\* t occurs in s
Contains(s, t) ==
    \E i \in 1..(Len(s) - Len(t) + 1) : SubSeq(s, i, i + Len(t) - 1) = t

StartsWith(s, t) == Len(s) >= Len(t) /\ SubSeq(s, 1, Len(t)) = t

EndsWith(s, t) == Len(s) >= Len(t) /\ SubSeq(s, Len(s) - Len(t) + 1, Len(s)) = t

\* number of places at which t occurs in s
Count(s, t) ==
    Cardinality({i \in 1..(Len(s) - Len(t) + 1) : SubSeq(s, i, i + Len(t) - 1) = t})

(***************************************************************************)
(* The outcome of a call: a returned string, or a raised exception and no  *)
(* return value.                                                           *)
(***************************************************************************)
NoResult == [status |-> "none", text |-> None, error |-> None, message |-> ""]

Returned(t) == [status |-> "return", text |-> Some(t), error |-> None, message |-> ""]

Raised(e, m) == [status |-> "raise", text |-> None, error |-> Some(e), message |-> m]

(***************************************************************************)
(* Host framework (ibis.backends.base.sql), as the specification describes *)
(* it.                                                                     *)
(***************************************************************************)
\* BaseDDL._get_scoped_name: namespace.name, or name
get_scoped_name(name, database) ==
    IF Truthy(database) THEN Val(database) \o "." \o name ELSE name

Types == {"int32", "string", "float64"}

\* the dialect spelling of a type
type_to_sql_string(t) ==
    CASE t = "int32" -> "INT"
      [] t = "string" -> "VARCHAR"
      [] t = "float64" -> "DOUBLE"

\* PARTITION (k=literal, ...); the partition is given as its k=literal list
format_partition(partition, partition_schema) ==
    "PARTITION (" \o Join(partition, ", ") \o ")"

\* ('k'='v', ...) for a property map given as <<k, v>> pairs; '' when empty
format_tblproperties(props) ==
    IF props = <<>> THEN ""
    ELSE "TBLPROPERTIES (\n"
         \o Join([i \in 1..Len(props) |->
                    "  '" \o props[i][1] \o "'='" \o props[i][2] \o "'"], ",\n")
         \o "\n)"

\* (name type, ...) for a schema given as <<name, type>> pairs
format_schema(schema) ==
    "(" \o Join([i \in 1..Len(schema) |->
                   schema[i][1] \o " " \o type_to_sql_string(schema[i][2])], ", ")
    \o ")"

\* filter(None, pieces): drops None and '' pieces; keeps the strings
RECURSIVE FilterNone(_)
FilterNone(pieces) ==
    IF pieces = <<>> THEN <<>>
    ELSE IF Truthy(Head(pieces)) THEN <<Val(Head(pieces))>> \o FilterNone(Tail(pieces))
    ELSE FilterNone(Tail(pieces))

\* CreateTable._create_line
CreateTable_create_line(self) ==
    (IF self.external THEN "CREATE EXTERNAL TABLE" ELSE "CREATE TABLE")
    \o " " \o get_scoped_name(self.table_name, self.database)

\* CreateTable._storage
CreateTable_storage(self) == Some("STORED AS " \o self.format)

\* CreateTable._location
CreateTable_location(self) ==
    IF self.path # "" THEN Some("LOCATION '" \o self.path \o "'") ELSE None

(***************************************************************************)
(* CreateTableParquet                                                      *)
(***************************************************************************)
OptFiles == {None, Some("/d/ex.parq")}

OptTables == {None, Some("db.like_t")}

OptSchemas == {None, Some(<<<<"a", "int32">>>>), Some(<<<<"a", "int32">>, <<"b", "string">>>>)}

OptDatabases == {None, Some("db")}

ParquetArgs ==
    [table_name : {"t"}, path : {"", "/d/t"}, example_file : OptFiles,
     example_table : OptTables, schema : OptSchemas, external : BOOLEAN,
     database : OptDatabases]

\* CreateTableParquet.__init__
CreateTableParquet_init(a) ==
    [cls |-> "CreateTableParquet", table_name |-> a.table_name,
     database |-> a.database, external |-> a.external, format |-> "PARQUET",
     path |-> a.path, example_file |-> a.example_file,
     example_table |-> a.example_table, schema |-> a.schema]

\* CreateTableParquet_source, were it to raise unless exactly one source is set
CreateTableParquet_source_exclusive(self) ==
    IF self.example_file # None /\ self.example_table = None /\ self.schema = None
    THEN Some(Some("LIKE PARQUET '" \o Val(self.example_file) \o "'"))
    ELSE IF self.example_file = None /\ self.example_table # None /\ self.schema = None
    THEN Some(Some("LIKE " \o Val(self.example_table)))
    ELSE IF self.example_file = None /\ self.example_table = None /\ self.schema # None
    THEN Some(Some(format_schema(Val(self.schema))))
    ELSE None

\* the source clause CreateTableParquet._pieces yields first: None stands for
\* the raise NotImplementedError of the last branch
CreateTableParquet_source(self) ==
    IF self.example_file # None
    THEN Some(Some("LIKE PARQUET '" \o Val(self.example_file) \o "'"))
    ELSE IF self.example_table # None
    THEN Some(Some("LIKE " \o Val(self.example_table)))
    ELSE IF self.schema # None
    THEN Some(Some(format_schema(Val(self.schema))))
    ELSE None

\* CreateTableParquet._pieces, drained: the pieces, or None when it raises
CreateTableParquet_pieces(self) ==
    LET src == CreateTableParquet_source(self) IN
    IF src = None THEN None
    ELSE Some(<<Val(src), CreateTable_storage(self), CreateTable_location(self)>>)

\* CreateTable.compile on a CreateTableParquet
CreateTableParquet_compile(self) ==
    LET pieces == CreateTableParquet_pieces(self) IN
    IF pieces = None THEN Raised("NotImplementedError", "")
    ELSE Returned(Join(<<CreateTable_create_line(self)>>
                       \o FilterNone(Val(pieces)), "\n"))

(***************************************************************************)
(* DelimitedFormat.  to_ddl is a generator: a call creates a frame that    *)
(* has run no code, and each next() on it runs the body up to the next     *)
(* yield.  pc is the number of the yield the frame is suspended at: 0 not  *)
(* started, 1 ROW FORMAT, 2 FIELDS, 3 ESCAPED, 4 LINES, 5 LOCATION,        *)
(* 6 the properties, 7 exhausted.                                          *)
(***************************************************************************)
\* DelimitedFormat.__init__
DelimitedFormat_init(a) ==
    [cls |-> "DelimitedFormat", path |-> a.path, delimiter |-> a.delimiter,
     escapechar |-> a.escapechar, lineterminator |-> a.lineterminator,
     na_rep |-> a.na_rep]

to_ddl_start == 0

to_ddl_end == 7

\* whether the body of to_ddl yields at yield k for this object
DelimitedFormat_yields(self, k) ==
    CASE k = 1 -> TRUE
      [] k = 2 -> self.delimiter # None
      [] k = 3 -> self.escapechar # None
      [] k = 4 -> self.lineterminator # None
      [] k = 5 -> TRUE
      [] k = 6 -> self.na_rep # None

\* the piece yield k yields
DelimitedFormat_piece(self, k) ==
    CASE k = 1 -> "ROW FORMAT DELIMITED"
      [] k = 2 -> "FIELDS TERMINATED BY '" \o Val(self.delimiter) \o "'"
      [] k = 3 -> "ESCAPED BY '" \o Val(self.escapechar) \o "'"
      [] k = 4 -> "LINES TERMINATED BY '" \o Val(self.lineterminator) \o "'"
      [] k = 5 -> "LOCATION '" \o self.path \o "'"
      [] k = 6 -> format_tblproperties(
                     <<<<"serialization.null.format", Val(self.na_rep)>>>>)

\* DelimitedFormat_to_ddl_next, were the properties clause to consume na_rep
DelimitedFormat_to_ddl_next_consuming(self, pc) ==
    LET later == {k \in (pc + 1)..(to_ddl_end - 1) : DelimitedFormat_yields(self, k)}
        k == IF later = {} THEN to_ddl_end
             ELSE CHOOSE j \in later : \A i \in later : j <= i
    IN [self |-> IF k = to_ddl_end - 1 THEN [self EXCEPT !.na_rep = None] ELSE self,
        pc |-> k,
        piece |-> IF k = to_ddl_end THEN None ELSE Some(DelimitedFormat_piece(self, k))]

\* one next() on a frame of DelimitedFormat.to_ddl suspended at pc: the
\* object afterwards, the yield reached and the piece yielded (None at the
\* end of the body)
DelimitedFormat_to_ddl_next(self, pc) ==
    LET later == {k \in (pc + 1)..(to_ddl_end - 1) : DelimitedFormat_yields(self, k)}
        k == IF later = {} THEN to_ddl_end
             ELSE CHOOSE j \in later : \A i \in later : j <= i
    IN [self |-> self,
        pc |-> k,
        piece |-> IF k = to_ddl_end THEN None ELSE Some(DelimitedFormat_piece(self, k))]

(***************************************************************************)
(* LoadData                                                                *)
(***************************************************************************)
OptPartitions == {None, Some(<<"year=2024">>), Some(<<"year=2024", "month=7">>)}

LoadDataArgs ==
    [table_name : {"t"}, path : {"/d/t.csv"}, database : OptDatabases,
     partition : OptPartitions, overwrite : BOOLEAN]

\* LoadData.__init__
LoadData_init(a) ==
    [cls |-> "LoadData", table_name |-> a.table_name, database |-> a.database,
     path |-> a.path, partition |-> a.partition,
     partition_schema |-> None, overwrite |-> a.overwrite]

\* LoadData_compile, were the partition clause to follow a space
LoadData_compile_space(self) ==
    LET overwrite == IF self.overwrite THEN "OVERWRITE " ELSE ""
        partition == IF self.partition # None
                     THEN " " \o format_partition(Val(self.partition),
                                                  self.partition_schema)
                     ELSE ""
        scoped_name == get_scoped_name(self.table_name, self.database)
    IN Returned("LOAD DATA INPATH '" \o self.path \o "' " \o overwrite
                \o "INTO TABLE " \o scoped_name \o partition)

\* LoadData.compile
LoadData_compile(self) ==
    LET overwrite == IF self.overwrite THEN "OVERWRITE " ELSE ""
        partition == IF self.partition # None
                     THEN "\n" \o format_partition(Val(self.partition),
                                                   self.partition_schema)
                     ELSE ""
        scoped_name == get_scoped_name(self.table_name, self.database)
    IN Returned("LOAD DATA INPATH '" \o self.path \o "' " \o overwrite
                \o "INTO TABLE " \o scoped_name \o partition)

(***************************************************************************)
(* ListFunction                                                            *)
(***************************************************************************)
OptLikes == {None, Some(""), Some("sum_%")}

ListFunctionArgs == [database : {"db"}, like : OptLikes, aggregate : BOOLEAN]

\* ListFunction.__init__
ListFunction_init(a) ==
    [cls |-> "ListFunction", database |-> a.database, like |-> a.like,
     aggregate |-> a.aggregate]

\* ListFunction_compile, were it to test like against None
ListFunction_compile_not_none(self) ==
    LET s1 == "SHOW "
        s2 == IF self.aggregate THEN s1 \o "AGGREGATE " ELSE s1
        s3 == s2 \o "FUNCTIONS IN " \o self.database
        s4 == IF self.like # None THEN s3 \o " LIKE '" \o Val(self.like) \o "'" ELSE s3
    IN Returned(s4)

\* ListFunction.compile
ListFunction_compile(self) ==
    LET s1 == "SHOW "
        s2 == IF self.aggregate THEN s1 \o "AGGREGATE " ELSE s1
        s3 == s2 \o "FUNCTIONS IN " \o self.database
        s4 == IF Truthy(self.like) THEN s3 \o " LIKE '" \o Val(self.like) \o "'" ELSE s3
    IN Returned(s4)

(***************************************************************************)
(* Python text: str and bytes values are sequences of character codes, so  *)
(* that repr(), UTF-8 encoding and base64 are computed, not assumed.       *)
(***************************************************************************)
MaxLibLen == 2

\* the characters of the modelled library values: a ' " \ and e-acute
StrCodes == {97, 39, 34, 92, 233}

\* the bytes of the modelled bytes values (ASCII, so utf-8 decodable)
ByteCodes == {97, 39, 34, 92}

SeqsUpTo(S, n) == UNION {[1..k -> S] : k \in 0..n}

\* func.library: None, a str or a bytes value
Libraries ==
    {[kind |-> "none", chars |-> <<>>]}
    \cup {[kind |-> "str", chars |-> c] : c \in SeqsUpTo(StrCodes, MaxLibLen)}
    \cup {[kind |-> "bytes", chars |-> c] : c \in SeqsUpTo(ByteCodes, MaxLibLen)}

\* chr(c) for the modelled characters
Chr(c) ==
    CASE c = 97 -> "a"
      [] c = 39 -> "'"
      [] c = 34 -> "\""
      [] c = 92 -> "\\"
      [] c = 233 -> "é"

RECURSIVE Text(_)
\* the str whose characters have the given codes
Text(codes) == IF codes = <<>> THEN "" ELSE Chr(Head(codes)) \o Text(Tail(codes))

\* a2u: str(value, 'utf-8') for bytes, str(value) otherwise
a2u(value) ==
    IF value.kind = "none" THEN "None" ELSE Text(value.chars)

\* bool(value): None, '' and b'' are falsy
LibraryTruthy(value) == value.kind # "none" /\ value.chars # <<>>

RECURSIVE Escaped(_, _)
\* the body of a repr: backslash and the quote in use are backslash-escaped
Escaped(chars, quote) ==
    IF chars = <<>> THEN <<>>
    ELSE (IF Head(chars) = 92 \/ Head(chars) = quote
          THEN <<92, Head(chars)>> ELSE <<Head(chars)>>)
         \o Escaped(Tail(chars), quote)

InSeq(x, s) == \E i \in 1..Len(s) : s[i] = x

\* repr(value) ('{!r}'.format): quoted with ', or with " when the value has a
\* ' and no "; bytes get the b prefix; None is None
repr(value) ==
    LET quote == IF InSeq(39, value.chars) /\ ~InSeq(34, value.chars)
                 THEN 34 ELSE 39
        quoted == <<quote>> \o Escaped(value.chars, quote) \o <<quote>>
    IN CASE value.kind = "none" -> <<78, 111, 110, 101>>
         [] value.kind = "str" -> quoted
         [] value.kind = "bytes" -> <<98>> \o quoted

RECURSIVE utf8(_)
\* bytes(text, 'utf-8') for code points below U+0800
utf8(codes) ==
    IF codes = <<>> THEN <<>>
    ELSE (IF Head(codes) < 128 THEN <<Head(codes)>>
          ELSE <<192 + (Head(codes) \div 64), 128 + (Head(codes) % 64)>>)
         \o utf8(Tail(codes))

B64Alphabet ==
    <<"A", "B", "C", "D", "E", "F", "G", "H", "I", "J", "K", "L", "M",
      "N", "O", "P", "Q", "R", "S", "T", "U", "V", "W", "X", "Y", "Z",
      "a", "b", "c", "d", "e", "f", "g", "h", "i", "j", "k", "l", "m",
      "n", "o", "p", "q", "r", "s", "t", "u", "v", "w", "x", "y", "z",
      "0", "1", "2", "3", "4", "5", "6", "7", "8", "9", "+", "/">>

B64(n) == B64Alphabet[n + 1]

RECURSIVE b64encode(_)
\* base64.b64encode(data).decode('utf-8')
b64encode(data) ==
    IF data = <<>> THEN ""
    ELSE IF Len(data) = 1
    THEN B64(data[1] \div 4) \o B64((data[1] % 4) * 16) \o "=="
    ELSE IF Len(data) = 2
    THEN B64(data[1] \div 4) \o B64((data[1] % 4) * 16 + data[2] \div 16)
         \o B64((data[2] % 16) * 4) \o "="
    ELSE B64(data[1] \div 4) \o B64((data[1] % 4) * 16 + data[2] \div 16)
         \o B64((data[2] % 16) * 4 + data[3] \div 64) \o B64(data[3] % 64)
         \o b64encode(SubSeq(data, 4, Len(data)))

(***************************************************************************)
(* Function signatures                                                     *)
(***************************************************************************)
\* string.ascii_letters
ascii_letters ==
    <<"a", "b", "c", "d", "e", "f", "g", "h", "i", "j", "k", "l", "m",
      "n", "o", "p", "q", "r", "s", "t", "u", "v", "w", "x", "y", "z",
      "A", "B", "C", "D", "E", "F", "G", "H", "I", "J", "K", "L", "M",
      "N", "O", "P", "Q", "R", "S", "T", "U", "V", "W", "X", "Y", "Z">>

\* ParamName, were the names to start over after z
ParamName_wrapped(i) == ascii_letters[((i - 1) % 26) + 1]

\* the name of the i-th parameter (i counted from 1): string.ascii_letters[i - 1]
ParamName(i) == ascii_letters[i]

\* _singlestore_input_signature: None stands for the IndexError that
\* string.ascii_letters[i] raises past the end of the alphabet
singlestore_input_signature(inputs) ==
    IF \E i \in 1..Len(inputs) : i > Len(ascii_letters) THEN None
    ELSE Some(Join([i \in 1..Len(inputs) |->
                      ParamName(i) \o " " \o type_to_sql_string(inputs[i])
                      \o " NOT NULL"], ", "))

IndexError == Raised("IndexError", "string index out of range")

(***************************************************************************)
(* CreateFunction, CreateUDF, CreateUDA, DropFunction                      *)
(***************************************************************************)
\* SingleStoreUDF.LANGUAGE_WASM, LANGUAGE_PYTHON, TYPE_FILE, TYPE_MODULE
LANGUAGE_WASM == "wasm"

LANGUAGE_PYTHON == "python"

TYPE_FILE == "file"

TYPE_MODULE == "module"

Languages == {LANGUAGE_WASM, LANGUAGE_PYTHON, "java"}

LibraryTypes == {TYPE_FILE, TYPE_MODULE, "url"}

MaxInputs == 54

\* the input type lists: every short list, and the lists of one repeated type
\* up to MaxInputs long
InputLists ==
    SeqsUpTo(Types, 2) \cup {[i \in 1..n |-> "float64"] : n \in 3..MaxInputs}

\* the input lists of the modelled functions: short ones and one past the
\* end of the alphabet
FuncInputs ==
    {<<>>, <<"int32">>, <<"int32", "string">>,
     [i \in 1..(Len(ascii_letters) + 1) |-> "float64"]}

OptNames == {None, Some(""), Some("alias")}

OptHooks == {None, Some(""), Some("fn")}

NoHooks ==
    [init_fn |-> None, update_fn |-> None, merge_fn |-> None,
     serialize_fn |-> None, finalize_fn |-> None]

\* the scalar functions (SingleStoreUDF)
UDFs ==
    {[name |-> "f_name", symbol |-> "f_sym", inputs |-> i, output |-> "int32",
      language |-> l, type |-> t, library |-> lib, hooks |-> NoHooks] :
        i \in FuncInputs, l \in Languages, t \in LibraryTypes, lib \in Libraries}

\* the aggregate functions (SingleStoreUDA)
UDAs ==
    {[name |-> "f_name", symbol |-> "f_sym", inputs |-> i, output |-> "float64",
      language |-> LANGUAGE_WASM, type |-> TYPE_FILE,
      library |-> [kind |-> "str", chars |-> <<97>>], hooks |-> h] :
        i \in FuncInputs,
        h \in [init_fn : OptHooks, update_fn : OptHooks, merge_fn : OptHooks,
               serialize_fn : OptHooks, finalize_fn : OptHooks]}

\* CreateFunction.__init__
CreateFunction_init(cls, func, name, database) ==
    [cls |-> cls, func |-> func,
     name |-> IF Truthy(name) THEN Val(name) ELSE func.name,
     database |-> database]

\* CreateFunction_singlestore_signature, were it to scope the name argument
CreateFunction_singlestore_signature_named(self) ==
    LET scoped_name == get_scoped_name(self.name, self.database)
        input_sig == singlestore_input_signature(self.func.inputs)
        output_sig == type_to_sql_string(self.func.output)
    IN IF input_sig = None THEN None
       ELSE Some(scoped_name \o "(" \o Val(input_sig) \o ") RETURNS "
                 \o output_sig \o " NOT NULL")

\* CreateFunction._singlestore_signature: None when the input signature raises
CreateFunction_singlestore_signature(self) ==
    LET scoped_name == get_scoped_name(self.func.symbol, self.database)
        input_sig == singlestore_input_signature(self.func.inputs)
        output_sig == type_to_sql_string(self.func.output)
    IN IF input_sig = None THEN None
       ELSE Some(scoped_name \o "(" \o Val(input_sig) \o ") RETURNS "
                 \o output_sig \o " NOT NULL")

\* the runtime clause of CreateUDF.compile: None for the raise ValueError
CreateUDF_language_clause(func) ==
    IF func.language = LANGUAGE_WASM THEN Some("AS WASM")
    ELSE IF func.language = LANGUAGE_PYTHON THEN Some("AS PYTHON")
    ELSE None

\* the ValueError CreateUDF.compile raises for an unsupported language
CreateUDF_language_error(func) ==
    Raised("ValueError", "Unsupported function language: " \o a2u(func.library) \o "'")

\* CreateUDF_module_library, without the "or ''"
CreateUDF_module_library_raw(func) == func.library

\* the library CreateUDF.compile embeds: self.func.library or ''
CreateUDF_module_library(func) ==
    IF LibraryTruthy(func.library) THEN func.library
    ELSE [kind |-> "str", chars |-> <<>>]

\* the library clause of CreateUDF.compile: None for the raise ValueError
CreateUDF_library_clause(func) ==
    IF func.type = TYPE_FILE THEN Some(" INFILE '" \o a2u(func.library) \o "'")
    ELSE IF func.type = TYPE_MODULE
    THEN Some(" '" \o b64encode(utf8(repr(CreateUDF_module_library(func)))) \o "'")
    ELSE None

\* CreateUDF_compile, were an unsupported library kind to fall through to
\* the return
CreateUDF_compile_fallthrough(self) ==
    LET create_decl == "CREATE OR REPLACE FUNCTION"
        singlestore_sig == CreateFunction_singlestore_signature(self)
        language == CreateUDF_language_clause(self.func)
        library == CreateUDF_library_clause(self.func)
    IN IF singlestore_sig = None THEN IndexError
       ELSE IF language = None THEN CreateUDF_language_error(self.func)
       ELSE Returned(Join(<<create_decl, Val(singlestore_sig),
                            Val(language)
                            \o (IF library = None THEN "" ELSE Val(library))>>, " "))

\* CreateUDF.compile
CreateUDF_compile(self) ==
    LET create_decl == "CREATE OR REPLACE FUNCTION"
        singlestore_sig == CreateFunction_singlestore_signature(self)
        language == CreateUDF_language_clause(self.func)
        library == CreateUDF_library_clause(self.func)
    IN IF singlestore_sig = None THEN IndexError
       ELSE IF language = None THEN CreateUDF_language_error(self.func)
       ELSE IF library = None THEN Raised("ValueError", "Unsupported function format")
       ELSE Returned(Join(<<create_decl, Val(singlestore_sig),
                            Val(language) \o Val(library)>>, " "))

\* fn_names of CreateUDA.compile
fn_names == <<"init_fn", "update_fn", "merge_fn", "serialize_fn", "finalize_fn">>

RECURSIVE CreateUDA_hook_tokens_truthy(_, _)
\* CreateUDA_hook_tokens, were it to test the hook's truth value
CreateUDA_hook_tokens_truthy(func, names) ==
    IF names = <<>> THEN <<>>
    ELSE LET fn == Head(names)
             value == func.hooks[fn]
         IN (IF Truthy(value) THEN <<fn \o "=\"" \o Val(value) \o "\"">> ELSE <<>>)
            \o CreateUDA_hook_tokens_truthy(func, Tail(names))

RECURSIVE CreateUDA_hook_tokens(_, _)
\* the tokens the loop over fn_names appends
CreateUDA_hook_tokens(func, names) ==
    IF names = <<>> THEN <<>>
    ELSE LET fn == Head(names)
             value == func.hooks[fn]
         IN (IF value # None THEN <<fn \o "=\"" \o Val(value) \o "\"">> ELSE <<>>)
            \o CreateUDA_hook_tokens(func, Tail(names))

\* CreateUDA.compile
CreateUDA_compile(self) ==
    LET create_decl == "CREATE OR REPLACE AGGREGATE FUNCTION"
        singlestore_sig == CreateFunction_singlestore_signature(self)
        tokens == <<"AS INFILE '" \o a2u(self.func.library) \o "'">>
                  \o CreateUDA_hook_tokens(self.func, fn_names)
    IN IF singlestore_sig = None THEN IndexError
       ELSE Returned(Join(<<create_decl, Val(singlestore_sig)>>, " ")
                     \o " " \o Join(tokens, "\n"))

\* DropFunction, as its base class constructs it
DropFunction_init(name, inputs, database) ==
    [cls |-> "DropFunction", name |-> name, inputs |-> inputs,
     database |-> database]

\* DropFunction._singlestore_signature
DropFunction_singlestore_signature(self) ==
    LET full_name == get_scoped_name(self.name, self.database)
        input_sig == singlestore_input_signature(self.inputs)
    IN IF input_sig = None THEN IndexError
       ELSE Returned(full_name \o "(" \o Val(input_sig) \o ")")

(***************************************************************************)
(* The caller: stmt is any descriptor the constructors build, and each     *)
(* action is one call on it.                                               *)
(***************************************************************************)
Stmts ==
    {CreateTableParquet_init(a) : a \in ParquetArgs}
    \cup {LoadData_init(a) : a \in LoadDataArgs}
    \cup {ListFunction_init(a) : a \in ListFunctionArgs}
    \cup {CreateFunction_init("CreateUDF", f, n, d) :
            f \in UDFs, n \in OptNames, d \in OptDatabases}
    \cup {CreateFunction_init("CreateUDA", f, n, d) :
            f \in UDAs, n \in OptNames, d \in OptDatabases}
    \cup {DropFunction_init("f_name", i, d) : i \in InputLists, d \in OptDatabases}

\* the call each descriptor class answers
compile(self) ==
    CASE self.cls = "CreateTableParquet" -> CreateTableParquet_compile(self)
      [] self.cls = "LoadData" -> LoadData_compile(self)
      [] self.cls = "ListFunction" -> ListFunction_compile(self)
      [] self.cls = "CreateUDF" -> CreateUDF_compile(self)
      [] self.cls = "CreateUDA" -> CreateUDA_compile(self)
      [] self.cls = "DropFunction" -> DropFunction_singlestore_signature(self)

Idle == objs = <<>> /\ origs = <<>> /\ gens = <<>> /\ firsts = <<>> /\ lasts = <<>>

Init == stmt \in Stmts /\ result = NoResult /\ Idle

CompileCreateTableParquet ==
    /\ stmt.cls = "CreateTableParquet"
    /\ result' = CreateTableParquet_compile(stmt)
    /\ UNCHANGED <<stmt, objs, origs, gens, firsts, lasts>>

CompileLoadData ==
    /\ stmt.cls = "LoadData"
    /\ result' = LoadData_compile(stmt)
    /\ UNCHANGED <<stmt, objs, origs, gens, firsts, lasts>>

CompileListFunction ==
    /\ stmt.cls = "ListFunction"
    /\ result' = ListFunction_compile(stmt)
    /\ UNCHANGED <<stmt, objs, origs, gens, firsts, lasts>>

CompileCreateUDF ==
    /\ stmt.cls = "CreateUDF"
    /\ result' = CreateUDF_compile(stmt)
    /\ UNCHANGED <<stmt, objs, origs, gens, firsts, lasts>>

CompileCreateUDA ==
    /\ stmt.cls = "CreateUDA"
    /\ result' = CreateUDA_compile(stmt)
    /\ UNCHANGED <<stmt, objs, origs, gens, firsts, lasts>>

SignatureDropFunction ==
    /\ stmt.cls = "DropFunction"
    /\ result' = DropFunction_singlestore_signature(stmt)
    /\ UNCHANGED <<stmt, objs, origs, gens, firsts, lasts>>

Next ==
    \/ CompileCreateTableParquet
    \/ CompileLoadData
    \/ CompileListFunction
    \/ CompileCreateUDF
    \/ CompileCreateUDA
    \/ SignatureDropFunction

Spec == Init /\ [][Next]_vars

(***************************************************************************)
(* Several objects rendered side by side.  objs are the objects, origs     *)
(* the objects as constructed, gens the to_ddl frames being drained, and   *)
(* firsts and lasts the first and the latest outcome of a finished call    *)
(* on each object; lasts also records whether a call was repeated.         *)
(***************************************************************************)
NumObjs == 2

Slots == 1..NumObjs

DelimitedArgs ==
    {[path |-> "/d/t.csv", delimiter |-> None, escapechar |-> None,
      lineterminator |-> None, na_rep |-> None],
     [path |-> "/d/t.csv", delimiter |-> Some(","), escapechar |-> None,
      lineterminator |-> None, na_rep |-> Some("NULL")],
     [path |-> "/d/t.csv", delimiter |-> Some(","), escapechar |-> Some("\\"),
      lineterminator |-> Some("\n"), na_rep |-> Some("NULL")]}

PureFunc(cls, language, hooks) ==
    CreateFunction_init(cls,
        [name |-> "f_name", symbol |-> "f_sym", inputs |-> <<"int32", "string">>,
         output |-> "float64", language |-> language, type |-> TYPE_FILE,
         library |-> [kind |-> "str", chars |-> <<97>>], hooks |-> hooks],
        None, Some("db"))

\* the objects rendered side by side: delimited formats, an aggregate
\* function that renders and a scalar function that fails to
PureObjs ==
    {DelimitedFormat_init(a) : a \in DelimitedArgs}
    \cup {PureFunc("CreateUDA", LANGUAGE_WASM,
                   [NoHooks EXCEPT !.update_fn = Some("upd"),
                                   !.finalize_fn = Some("fin")]),
          PureFunc("CreateUDF", "java", NoHooks)}

NoFrame == [active |-> FALSE, pc |-> to_ddl_start, yielded |-> <<>>]

InitPure ==
    /\ stmt = None
    /\ result = NoResult
    /\ objs \in [Slots -> PureObjs]
    /\ origs = objs
    /\ gens = [s \in Slots |-> NoFrame]
    /\ firsts = [s \in Slots |-> NoResult]
    /\ lasts = [s \in Slots |-> [outcome |-> NoResult, again |-> FALSE]]

\* a call on objs[s] has finished with this outcome
Finish(s, outcome) ==
    /\ firsts' = [firsts EXCEPT ![s] = IF @ = NoResult THEN outcome ELSE @]
    /\ lasts' = [lasts EXCEPT ![s] = [outcome |-> outcome,
                                      again |-> firsts[s] # NoResult]]

\* to_ddl() on a DelimitedFormat: a new frame, no code run
ToDdl(s) ==
    /\ objs[s].cls = "DelimitedFormat"
    /\ ~gens[s].active
    /\ gens' = [gens EXCEPT ![s] = [active |-> TRUE, pc |-> to_ddl_start,
                                    yielded |-> <<>>]]
    /\ UNCHANGED <<stmt, result, objs, origs, firsts, lasts>>

\* next() on the frame of objs[s]: the consumer collects the piece, or
\* joins the pieces when the generator is exhausted
NextPiece(s) ==
    /\ gens[s].active
    /\ LET step == DelimitedFormat_to_ddl_next(objs[s], gens[s].pc) IN
       /\ objs' = [objs EXCEPT ![s] = step.self]
       /\ IF step.piece = None
          THEN /\ gens' = [gens EXCEPT ![s] = NoFrame]
               /\ Finish(s, Returned(Join(gens[s].yielded, "\n")))
          ELSE /\ gens' = [gens EXCEPT ![s] =
                             [active |-> TRUE, pc |-> step.pc,
                              yielded |-> Append(@.yielded, Val(step.piece))]]
               /\ UNCHANGED <<firsts, lasts>>
    /\ UNCHANGED <<stmt, result, origs>>

\* compile() on the CreateUDA or CreateUDF objs[s]
CompileObj(s) ==
    /\ objs[s].cls \in {"CreateUDA", "CreateUDF"}
    /\ Finish(s, compile(objs[s]))
    /\ UNCHANGED <<stmt, result, objs, origs, gens>>

NextPure == \E s \in Slots : ToDdl(s) \/ NextPiece(s) \/ CompileObj(s)

SpecPure == InitPure /\ [][NextPure]_vars

(***************************************************************************)
(* Properties                                                              *)
(***************************************************************************)
Compiled == result.status # "none"

\* the least place at which t occurs in s, 0 when it does not
FirstIndex(s, t) ==
    IF Contains(s, t)
    THEN CHOOSE i \in 1..(Len(s) - Len(t) + 1) :
            /\ SubSeq(s, i, i + Len(t) - 1) = t
            /\ \A j \in 1..(i - 1) : SubSeq(s, j, j + Len(t) - 1) # t
    ELSE 0

\* how many of example_file, example_table and schema are set
SourcesSet(self) ==
    Cardinality({f \in {"example_file", "example_table", "schema"} : self[f] # None})

ParquetCompiled == stmt.cls = "CreateTableParquet" /\ Compiled

\* C1, as claimed: a create-from-format statement renders only when exactly
\* one of example_file, example_table and schema is set, and raises for none
\* or more than one.
C1_ExactlyOneSource ==
    ParquetCompiled =>
        /\ result.status = "return" <=> SourcesSet(stmt) = 1
        /\ result.status = "raise" <=> SourcesSet(stmt) # 1

\* C1, amended: a create-from-format statement raises (NotImplementedError)
\* exactly when none of example_file, example_table and schema is set; when
\* one or more is set it renders one source clause, chosen by precedence
\* example_file, then example_table, then schema.
C1_SourceByPrecedence ==
    ParquetCompiled =>
        /\ result.status = "raise" <=> SourcesSet(stmt) = 0
        /\ result.status = "raise" => result.error = Some("NotImplementedError")
        /\ result.status = "return" <=> SourcesSet(stmt) >= 1
        /\ result.status = "return" =>
            LET text == Val(result.text) IN
            /\ stmt.example_file # None =>
                /\ Contains(text, "\nLIKE PARQUET '" \o Val(stmt.example_file)
                                  \o "'\nSTORED AS")
                /\ Count(text, "\nLIKE ") = 1
                /\ ~Contains(text, "\n(")
            /\ stmt.example_file = None /\ stmt.example_table # None =>
                /\ Contains(text, "\nLIKE " \o Val(stmt.example_table)
                                  \o "\nSTORED AS")
                /\ Count(text, "\nLIKE ") = 1
                /\ ~Contains(text, "LIKE PARQUET")
                /\ ~Contains(text, "\n(")
            /\ stmt.example_file = None /\ stmt.example_table = None =>
                /\ Contains(text, "\n" \o format_schema(Val(stmt.schema))
                                  \o "\nSTORED AS")
                /\ ~Contains(text, "LIKE")

\* C1 witness: a statement with example_file and example_table both set has
\* been compiled and rendered.
C1_Witness ==
    /\ ParquetCompiled
    /\ stmt.example_file = Some("/d/ex.parq")
    /\ stmt.example_table = Some("db.like_t")
    /\ result.status = "return"

SignatureRenders(self) == Len(self.func.inputs) <= Len(ascii_letters)

RuntimeSupported(self) == self.func.language \in {LANGUAGE_WASM, LANGUAGE_PYTHON}

\* C2, as claimed: compiling a scalar function whose runtime is neither WASM
\* nor PYTHON raises an error that names the unsupported runtime value,
\* whatever the library kind and content.
C2_ErrorNamesRuntime ==
    (/\ stmt.cls = "CreateUDF"
     /\ Compiled
     /\ SignatureRenders(stmt)
     /\ ~RuntimeSupported(stmt)) =>
        /\ result.status = "raise"
        /\ Contains(result.message, stmt.func.language)

UDFSupportedCompiled ==
    /\ stmt.cls = "CreateUDF"
    /\ Compiled
    /\ SignatureRenders(stmt)
    /\ RuntimeSupported(stmt)

\* what C3 expects of a supported-runtime scalar function whose embedded
\* content is represented as repr(content)
C3_Expected(content) ==
    LET func == stmt.func
        runtime == IF func.language = LANGUAGE_WASM THEN "AS WASM" ELSE "AS PYTHON"
        head == "CREATE OR REPLACE FUNCTION "
                \o Val(CreateFunction_singlestore_signature(stmt)) \o " " \o runtime
    IN CASE func.type = TYPE_FILE ->
              Returned(head \o " INFILE '" \o a2u(func.library) \o "'")
         [] func.type = TYPE_MODULE ->
              Returned(head \o " '" \o b64encode(utf8(repr(content))) \o "'")
         [] OTHER -> Raised("ValueError", "Unsupported function format")

\* C3, as claimed: signature, runtime clause, then INFILE '<path>' for a
\* file library, the quoted base64(UTF-8(repr(content))) for embedded
\* content, and an error for any other library kind.
C3_ReprOfContent == UDFSupportedCompiled => result = C3_Expected(stmt.func.library)

\* C3, amended: as claimed, except that embedded content that is falsy (None,
\* '' or b'') is replaced by the empty str before repr is taken, so the
\* literal is base64(UTF-8(repr(content or ''))).
C3_ReprOfContentOrEmpty ==
    UDFSupportedCompiled =>
        result = C3_Expected(IF LibraryTruthy(stmt.func.library)
                             THEN stmt.func.library
                             ELSE [kind |-> "str", chars |-> <<>>])

\* C3 witness: a supported-runtime scalar function with empty bytes as its
\* embedded content has been rendered.
C3_Witness ==
    /\ UDFSupportedCompiled
    /\ stmt.func.type = TYPE_MODULE
    /\ stmt.func.library = [kind |-> "bytes", chars |-> <<>>]
    /\ result.status = "return"

\* the hook clause of a set hook
HookClause(fn) == fn \o "=\"" \o Val(stmt.func.hooks[fn]) \o "\""

\* C4: a rendered aggregate function has exactly one clause hookname="expression"
\* per set hook and none for an unset hook, in the order init, update, merge,
\* serialize, finalize, all after the AS INFILE '<path>' clause.
C4_HookClauses ==
    (stmt.cls = "CreateUDA" /\ result.status = "return") =>
        LET text == Val(result.text)
            hooks == <<"init_fn", "update_fn", "merge_fn", "serialize_fn",
                       "finalize_fn">>
            IsSet(i) == stmt.func.hooks[hooks[i]] # None
            infile == " AS INFILE '" \o a2u(stmt.func.library) \o "'"
        IN /\ Count(text, infile) = 1
           /\ \A i \in 1..5 :
                /\ IsSet(i) =>
                    /\ Count(text, hooks[i] \o "=") = 1
                    /\ Count(text, "\n" \o HookClause(hooks[i])) = 1
                    /\ FirstIndex(text, infile) < FirstIndex(text, HookClause(hooks[i]))
                /\ ~IsSet(i) => Count(text, hooks[i]) = 0
           /\ \A i, j \in 1..5 :
                (i < j /\ IsSet(i) /\ IsSet(j)) =>
                    FirstIndex(text, hooks[i] \o "=") < FirstIndex(text, hooks[j] \o "=")
           /\ Count(text, "_fn=") =
                Cardinality({i \in 1..5 : IsSet(i)})

\* C4 witness: an aggregate function with only update_fn and finalize_fn set,
\* finalize_fn to the empty expression, has been rendered.
C4_Witness ==
    /\ stmt.cls = "CreateUDA"
    /\ result.status = "return"
    /\ stmt.func.hooks = [NoHooks EXCEPT !.update_fn = Some("fn"),
                                         !.finalize_fn = Some("")]

\* the letters a..z, A..Z of the naming scheme
Alphabet == "abcdefghijklmnopqrstuvwxyzABCDEFGHIJKLMNOPQRSTUVWXYZ"

Letter(i) == SubSeq(Alphabet, i, i)

\* C5: the i-th input is named by the i-th letter of a..z, A..Z and rendered
\* '<letter> <type> NOT NULL'; up to 52 inputs the names are pairwise
\* distinct; more than 52 inputs fail to render.
C5_ParameterNames ==
    (stmt.cls = "DropFunction" /\ Compiled) =>
        LET n == Len(stmt.inputs) IN
        IF n <= Len(Alphabet)
        THEN /\ result.status = "return"
             /\ Val(result.text) =
                  get_scoped_name(stmt.name, stmt.database) \o "("
                  \o Join([i \in 1..n |->
                             Letter(i) \o " " \o type_to_sql_string(stmt.inputs[i])
                             \o " NOT NULL"], ", ")
                  \o ")"
             /\ \A i, j \in 1..n : i # j => Letter(i) # Letter(j)
        ELSE /\ result.status = "raise"
             /\ result.text = None

\* C5 witness: a signature of 53 inputs has been asked for and failed.
C5_Witness ==
    /\ stmt.cls = "DropFunction"
    /\ Len(stmt.inputs) = Len(Alphabet) + 1
    /\ result.status = "raise"

ListCompiled == stmt.cls = "ListFunction" /\ result.status = "return"

ListHead ==
    "SHOW " \o (IF stmt.aggregate THEN "AGGREGATE " ELSE "")
    \o "FUNCTIONS IN " \o stmt.database

\* C6, as claimed: AGGREGATE is present exactly when aggregate is true, and
\* the LIKE '<pattern>' suffix exactly when a pattern was supplied, the empty
\* string included.
C6_LikeWhenSupplied ==
    ListCompiled =>
        Val(result.text) =
            ListHead \o (IF stmt.like # None
                         THEN " LIKE '" \o Val(stmt.like) \o "'" ELSE "")

\* C6, amended: AGGREGATE is present exactly when aggregate is true, and the
\* LIKE '<pattern>' suffix exactly when a non-empty pattern was supplied; it
\* is absent when no pattern or the empty string was supplied.
C6_LikeWhenNonEmpty ==
    ListCompiled =>
        /\ Val(result.text) =
            ListHead \o (IF stmt.like # None /\ Val(stmt.like) # ""
                         THEN " LIKE '" \o Val(stmt.like) \o "'" ELSE "")
        /\ Contains(Val(result.text), "AGGREGATE") <=> stmt.aggregate
        /\ Contains(Val(result.text), " LIKE '") <=> stmt.like \notin {None, Some("")}

\* C6 witness: a listing with the empty string as its pattern has been
\* rendered.
C6_Witness == ListCompiled /\ stmt.like = Some("")

LoadCompiled == stmt.cls = "LoadData" /\ result.status = "return"

\* the LOAD DATA statement with sep between the scoped table name and the
\* partition clause
LoadExpected(sep) ==
    "LOAD DATA INPATH '" \o stmt.path \o "' "
    \o (IF stmt.overwrite THEN "OVERWRITE " ELSE "")
    \o "INTO TABLE " \o get_scoped_name(stmt.table_name, stmt.database)
    \o (IF stmt.partition # None
        THEN sep \o format_partition(Val(stmt.partition), stmt.partition_schema)
        ELSE "")

\* C7, as claimed: OVERWRITE appears exactly when overwrite is true, and a
\* given partition clause follows the scoped table name after a single space.
C7_PartitionAfterSpace == LoadCompiled => Val(result.text) = LoadExpected(" ")

\* C7, amended: OVERWRITE appears exactly when overwrite is true, and a given
\* partition clause follows the scoped table name after a single newline;
\* without a partition the statement ends at the scoped table name.
C7_PartitionAfterNewline ==
    LoadCompiled =>
        /\ Val(result.text) = LoadExpected("\n")
        /\ Contains(Val(result.text), "OVERWRITE ") <=> stmt.overwrite
        /\ stmt.partition = None =>
            EndsWith(Val(result.text),
                     "INTO TABLE " \o get_scoped_name(stmt.table_name, stmt.database))

\* C7 witness: a load with a partition and overwrite has been rendered.
C7_Witness ==
    /\ LoadCompiled
    /\ stmt.overwrite
    /\ stmt.partition = Some(<<"year=2024", "month=7">>)

\* text is one complete statement of the kind of stmt
Complete(text) ==
    CASE stmt.cls = "CreateUDF" ->
            /\ StartsWith(text, "CREATE OR REPLACE FUNCTION ")
            /\ Contains(text, ") RETURNS ")
            /\ Contains(text, " AS WASM ") \/ Contains(text, " AS PYTHON ")
            /\ EndsWith(text, "'")
      [] stmt.cls = "CreateUDA" ->
            /\ StartsWith(text, "CREATE OR REPLACE AGGREGATE FUNCTION ")
            /\ Contains(text, ") RETURNS ")
            /\ Contains(text, " AS INFILE '")
      [] stmt.cls = "CreateTableParquet" ->
            /\ StartsWith(text, "CREATE ")
            /\ Contains(text, "\nSTORED AS PARQUET")
            /\ stmt.path # "" => EndsWith(text, "\nLOCATION '" \o stmt.path \o "'")
      [] stmt.cls = "LoadData" ->
            /\ StartsWith(text, "LOAD DATA INPATH '")
            /\ Contains(text, "INTO TABLE ")
      [] stmt.cls = "ListFunction" ->
            /\ StartsWith(text, "SHOW ")
            /\ Contains(text, "FUNCTIONS IN ")
      [] stmt.cls = "DropFunction" -> EndsWith(text, ")")

\* C8: a call either returns one complete statement or raises and returns no
\* text; a scalar function with a supported runtime and an unsupported
\* library kind, and a create-from-format statement with no source, raise
\* and return nothing.
C8_AllOrNothing ==
    Compiled =>
        /\ result.status \in {"return", "raise"}
        /\ result.status = "raise" => result.text = None /\ result.error # None
        /\ result.status = "return" =>
            /\ result.error = None
            /\ result.text # None
            /\ Complete(Val(result.text))
        /\ (stmt.cls = "CreateUDF" /\ stmt.func.type \notin {TYPE_FILE, TYPE_MODULE}) =>
            result.status = "raise"
        /\ (stmt.cls = "CreateTableParquet" /\ SourcesSet(stmt) = 0) =>
            result.status = "raise"

\* C8 witness: a scalar function with a supported runtime and an unsupported
\* library kind has been compiled and raised.
C8_Witness ==
    /\ UDFSupportedCompiled
    /\ stmt.func.type = "url"
    /\ result = Raised("ValueError", "Unsupported function format")

C9_Pure ==
    \A s \in Slots :
        /\ objs[s] = origs[s]
        /\ lasts[s].outcome # NoResult => lasts[s].outcome = firsts[s]

\* C9 witness: a delimited format with a null representation has been drained
\* a second time while the frame of another delimited format was suspended
\* half way.
C9_Witness ==
    \E s, t \in Slots :
        /\ s # t
        /\ objs[s].cls = "DelimitedFormat"
        /\ objs[s].na_rep # None
        /\ lasts[s].again
        /\ gens[t].active
        /\ gens[t].pc > to_ddl_start

====
